---- MODULE Spec2Model ----
(***************************************************************************)
(* Rule generation, validation, evaluation and summarization pipeline of   *)
(* the natural-language transaction rules engine (rule-engine-service.js,  *)
(* ollama-integration.js, csv-processor.js, field-mapping.js).             *)
(*                                                                         *)
(* Text (a backend completion, a CSV cell) is a sequence of lexemes: the   *)
(* lexemes the code's regular expressions and JSON.parse tell apart are    *)
(* single elements ("<result>", a code fence, "{", a quote, white space).   *)
(* A JSON value is a tagged record, so that parsing and validation are     *)
(* computed on the same structure the JavaScript code walks.               *)
(***************************************************************************)
EXTENDS Integers, Sequences, FiniteSets, TLC

(***************************************************************************)
(* Bounds of the model.                                                    *)
(***************************************************************************)
MaxRows == 2

(***************************************************************************)
(* JSON values as JavaScript sees them after JSON.parse.                   *)
(***************************************************************************)
JNull == [t |-> "null"]
JUndefined == [t |-> "undefined"]
JBool(b) == [t |-> "bool", b |-> b]
JNum(n) == [t |-> "num", n |-> n]
JStr(s) == [t |-> "str", s |-> s]
JArr(a) == [t |-> "arr", a |-> a]
JObj(k, v) == [t |-> "obj", k |-> k, v |-> v]

S(w) == JStr(<<w>>)

\* obj[key] in JavaScript for an own data property; undefined on a primitive,
\* an array or a missing key.  The caller handles null and undefined receivers.
Get(obj, key) ==
  IF obj.t = "obj" /\ \E i \in 1..Len(obj.k) : obj.k[i] = <<key>>
  THEN obj.v[CHOOSE i \in 1..Len(obj.k) : obj.k[i] = <<key>>]
  ELSE JUndefined

\* Object.prototype.hasOwnProperty.call(obj, key)
Has(obj, key) == obj.t = "obj" /\ \E i \in 1..Len(obj.k) : obj.k[i] = <<key>>

\* ToBoolean
Truthy(v) ==
  CASE v.t = "null" -> FALSE
    [] v.t = "undefined" -> FALSE
    [] v.t = "bool" -> v.b
    [] v.t = "num" -> v.n # 0
    [] v.t = "str" -> v.s # <<>>
    [] OTHER -> TRUE

\* A property read throws a TypeError on null and undefined.
Nullish(v) == v.t \in {"null", "undefined"}

(***************************************************************************)
(* Text.                                                                   *)
(***************************************************************************)
WS == {" ", "\n"}
QUOTE == "\""
\* The Markdown code fence, three backquote characters.
FENCE == "<fence>"
MaxNum == 15
NumLexemes == {ToString(n) : n \in 0..MaxNum}
NumOf(lex) == CHOOSE n \in 0..MaxNum : ToString(n) = lex

RECURSIVE TrimStart(_)
TrimStart(txt) ==
  IF txt # <<>> /\ Head(txt) \in WS THEN TrimStart(Tail(txt)) ELSE txt

RECURSIVE TrimEnd(_)
TrimEnd(txt) ==
  IF txt # <<>> /\ txt[Len(txt)] \in WS
  THEN TrimEnd(SubSeq(txt, 1, Len(txt) - 1)) ELSE txt

\* String.prototype.trim
Trim(txt) == TrimEnd(TrimStart(txt))

(***************************************************************************)
(* JSON.stringify (compact form) of a JSON value.                          *)
(***************************************************************************)
RECURSIVE Stringify(_)
RECURSIVE StringifyMembers(_, _, _)
RECURSIVE StringifyElements(_, _)
StringifyMembers(k, v, i) ==
  IF i > Len(k) THEN <<>>
  ELSE (IF i > 1 THEN <<",">> ELSE <<>>)
       \o <<QUOTE>> \o k[i] \o <<QUOTE, ":">> \o Stringify(v[i])
       \o StringifyMembers(k, v, i + 1)
StringifyElements(a, i) ==
  IF i > Len(a) THEN <<>>
  ELSE (IF i > 1 THEN <<",">> ELSE <<>>)
       \o Stringify(a[i]) \o StringifyElements(a, i + 1)
Stringify(v) ==
  CASE v.t = "null" -> <<"null">>
    [] v.t = "bool" -> IF v.b THEN <<"true">> ELSE <<"false">>
    [] v.t = "num" -> <<ToString(v.n)>>
    [] v.t = "str" -> <<QUOTE>> \o v.s \o <<QUOTE>>
    [] v.t = "arr" -> <<"[">> \o StringifyElements(v.a, 1) \o <<"]">>
    [] v.t = "obj" -> <<"{">> \o StringifyMembers(v.k, v.v, 1) \o <<"}">>

(***************************************************************************)
(* JSON.parse: recursive descent over the lexemes.  A result is            *)
(* [ok, val, rest]; ok = FALSE is the SyntaxError JSON.parse throws.       *)
(***************************************************************************)
ParseFail == [ok |-> FALSE, val |-> JUndefined, rest |-> <<>>]
ParseOk(v, rest) == [ok |-> TRUE, val |-> v, rest |-> rest]

\* The index of the first lexeme equal to lex at or after position from; 0 if none.
IndexFrom(txt, lex, from) ==
  IF \E i \in from..Len(txt) : txt[i] = lex
  THEN CHOOSE i \in from..Len(txt) :
         txt[i] = lex /\ \A j \in from..(i - 1) : txt[j] # lex
  ELSE 0

\* The index of the last lexeme equal to lex; 0 if none.
LastIndex(txt, lex) ==
  IF \E i \in 1..Len(txt) : txt[i] = lex
  THEN CHOOSE i \in 1..Len(txt) :
         txt[i] = lex /\ \A j \in (i + 1)..Len(txt) : txt[j] # lex
  ELSE 0

\* A string literal at the head of txt: quote, content, quote.
ParseString(txt) ==
  IF txt = <<>> \/ Head(txt) # QUOTE THEN ParseFail
  ELSE LET j == IndexFrom(txt, QUOTE, 2) IN
       IF j = 0 THEN ParseFail
       ELSE ParseOk(JStr(SubSeq(txt, 2, j - 1)), SubSeq(txt, j + 1, Len(txt)))

\* Last member wins for a repeated key, at the position of its first occurrence.
ObjSet(k, v, key, val) ==
  IF \E i \in 1..Len(k) : k[i] = key
  THEN LET i == CHOOSE i \in 1..Len(k) : k[i] = key
       IN JObj(k, [v EXCEPT ![i] = val])
  ELSE JObj(Append(k, key), Append(v, val))

RECURSIVE ParseValue(_)
RECURSIVE ParseMembers(_, _)
RECURSIVE ParseElements(_, _)
\* txt stands right after "{" or after a ","; obj holds the members read so far.
ParseMembers(txt, obj) ==
  LET key == ParseString(TrimStart(txt)) IN
  IF ~key.ok THEN ParseFail
  ELSE LET c == TrimStart(key.rest) IN
       IF c = <<>> \/ Head(c) # ":" THEN ParseFail
       ELSE LET val == ParseValue(Tail(c)) IN
            IF ~val.ok THEN ParseFail
            ELSE LET r == TrimStart(val.rest)
                     o == ObjSet(obj.k, obj.v, key.val.s, val.val)
                 IN IF r = <<>> THEN ParseFail
                    ELSE IF Head(r) = "}" THEN ParseOk(o, Tail(r))
                    ELSE IF Head(r) = "," THEN ParseMembers(Tail(r), o)
                    ELSE ParseFail
\* txt stands right after "[" or after a ","; a holds the elements read so far.
ParseElements(txt, a) ==
  LET val == ParseValue(txt) IN
  IF ~val.ok THEN ParseFail
  ELSE LET r == TrimStart(val.rest) IN
       IF r = <<>> THEN ParseFail
       ELSE IF Head(r) = "]" THEN ParseOk(JArr(Append(a, val.val)), Tail(r))
       ELSE IF Head(r) = "," THEN ParseElements(Tail(r), Append(a, val.val))
       ELSE ParseFail
ParseValue(txt) ==
  LET t == TrimStart(txt) IN
  IF t = <<>> THEN ParseFail
  ELSE CASE Head(t) = "{" ->
              (LET r == TrimStart(Tail(t)) IN
               IF r # <<>> /\ Head(r) = "}" THEN ParseOk(JObj(<<>>, <<>>), Tail(r))
               ELSE ParseMembers(Tail(t), JObj(<<>>, <<>>)))
         [] Head(t) = "[" ->
              (LET r == TrimStart(Tail(t)) IN
               IF r # <<>> /\ Head(r) = "]" THEN ParseOk(JArr(<<>>), Tail(r))
               ELSE ParseElements(Tail(t), <<>>))
         [] Head(t) = QUOTE -> ParseString(t)
         [] Head(t) \in NumLexemes -> ParseOk(JNum(NumOf(Head(t))), Tail(t))
         [] Head(t) = "null" -> ParseOk(JNull, Tail(t))
         [] Head(t) = "true" -> ParseOk(JBool(TRUE), Tail(t))
         [] Head(t) = "false" -> ParseOk(JBool(FALSE), Tail(t))
         [] OTHER -> ParseFail

\* JSON.parse(text): one value, white space around it, nothing else.
JsonParse(txt) ==
  LET r == ParseValue(txt) IN
  IF r.ok /\ TrimStart(r.rest) = <<>> THEN r ELSE ParseFail

(***************************************************************************)
(* OllamaIntegration.validateRule: "true", "false", or "throw" when a      *)
(* property is read from null (a TypeError).                               *)
(***************************************************************************)
\* Line 242 for one element of the conditions array.
ConditionCheck(condition) ==
  IF Nullish(condition) THEN "throw"
  ELSE IF ~Truthy(Get(condition, "fact"))
          \/ ~Truthy(Get(condition, "operator"))
          \/ Get(condition, "value") = JUndefined
       THEN "false"
       ELSE "true"

\* The for loop of lines 241-245: the first element that is not "true" decides.
RECURSIVE ConditionsLoop(_, _)
ConditionsLoop(conditions, i) ==
  IF i > Len(conditions) THEN "true"
  ELSE LET c == ConditionCheck(conditions[i]) IN
       IF c # "true" THEN c ELSE ConditionsLoop(conditions, i + 1)

\* rule.conditions.all || rule.conditions.any (line 235)
ValidatedGroup(rule) ==
  LET all == Get(Get(rule, "conditions"), "all")
      any == Get(Get(rule, "conditions"), "any")
  IN IF Truthy(all) THEN all ELSE any

ValidateRule(rule) ==
  IF Nullish(rule) THEN "throw"
  ELSE IF ~Truthy(Get(rule, "conditions")) \/ ~Truthy(Get(rule, "event")) THEN "false"
  ELSE IF ~Truthy(Get(Get(rule, "conditions"), "all"))
          /\ ~Truthy(Get(Get(rule, "conditions"), "any")) THEN "false"
  ELSE LET conditions == ValidatedGroup(rule) IN
       IF conditions.t # "arr" \/ Len(conditions.a) = 0 THEN "false"
       ELSE ConditionsLoop(conditions.a, 1)

(***************************************************************************)
(* OllamaIntegration.parseJsonFromResponse.                                *)
(***************************************************************************)
\* response.match(/<result>(.*?)<\/result>/s): the first "<result>" and the
\* first "</result>" after it; [found, group].
ResultMatch(response) ==
  LET i == IndexFrom(response, "<result>", 1)
      j == IF i = 0 THEN 0 ELSE IndexFrom(response, "</result>", i + 1)
  IN IF j = 0 THEN [found |-> FALSE, group |-> <<>>]
     ELSE [found |-> TRUE, group |-> SubSeq(response, i + 1, j - 1)]

\* replace(/^FENCEjson\s*/, "") of line 190, FENCE being three backquotes
StripFenceJsonStart(txt) ==
  IF Len(txt) >= 2 /\ txt[1] = FENCE /\ txt[2] = "json"
  THEN TrimStart(SubSeq(txt, 3, Len(txt))) ELSE txt

\* replace(/^FENCE\s*/, "") of line 191
StripFenceStart(txt) ==
  IF Len(txt) >= 1 /\ txt[1] = FENCE THEN TrimStart(Tail(txt)) ELSE txt

\* replace(/\s*FENCE$/, "") of lines 190 and 191
StripFenceEnd(txt) ==
  IF Len(txt) >= 1 /\ txt[Len(txt)] = FENCE
  THEN TrimEnd(SubSeq(txt, 1, Len(txt) - 1)) ELSE txt

\* jsonText.match(/\{.*\}/s): from the first "{" to the last "}" after it.
BraceMatch(txt) ==
  LET a == IndexFrom(txt, "{", 1)
      b == LastIndex(txt, "}")
  IN IF a # 0 /\ b > a THEN SubSeq(txt, a, b) ELSE txt

\* Lines 186-197: the text handed to JSON.parse.
ExtractJsonText(response) ==
  LET m == ResultMatch(response)
      t0 == IF m.found THEN Trim(m.group) ELSE response
      t1 == StripFenceEnd(StripFenceJsonStart(t0))
      t2 == StripFenceEnd(StripFenceStart(t1))
  IN BraceMatch(t2)

SchemaErrorText == <<"Generated rule does not match expected json-rules-engine format">>
ParseErrorPrefix == "Failed to parse JSON from LLM response: "
ParseErrorText(message) == <<ParseErrorPrefix, message>>

RuleSuccess(rule) ==
  [success |-> TRUE, rule |-> rule, error |-> <<>>, rawResponse |-> JUndefined,
   source |-> "ollama"]
RuleFailure(error, raw) ==
  [success |-> FALSE, rule |-> JUndefined, error |-> error, rawResponse |-> raw,
   source |-> ""]

\* response is the JavaScript value of response.data.response: a string or
\* undefined.  Everything runs inside the try of line 184.
\* A variant that reports a text JSON.parse refuses as a rule of the wrong shape.
ParseJsonFromResponseOneErrorKind(response) ==
  IF response.t # "str"
  THEN RuleFailure(ParseErrorText("TypeError: Cannot read properties of undefined"), response)
  ELSE LET parsed == JsonParse(ExtractJsonText(response.s)) IN
       IF parsed.ok /\ ValidateRule(parsed.val) = "true" THEN RuleSuccess(parsed.val)
       ELSE RuleFailure(SchemaErrorText, response)

ParseJsonFromResponse(response) ==
  IF response.t # "str"
  THEN RuleFailure(ParseErrorText("TypeError: Cannot read properties of undefined"), response)
  ELSE LET parsed == JsonParse(ExtractJsonText(response.s)) IN
       IF ~parsed.ok
       THEN RuleFailure(ParseErrorText("SyntaxError: Unexpected token"), response)
       ELSE LET valid == ValidateRule(parsed.val) IN
            IF valid = "throw"
            THEN RuleFailure(ParseErrorText("TypeError: Cannot read properties of null"), response)
            ELSE IF valid = "true" THEN RuleSuccess(parsed.val)
            ELSE RuleFailure(SchemaErrorText, response)

(***************************************************************************)
(* OllamaIntegration.generateRule on the backend's answer.  An answer is   *)
(* [status, message, data]: status 0 is no answer at all (the transport    *)
(* failed), data is response.data.response.  axios resolves a 2xx status   *)
(* and rejects every other answer with error.message.                      *)
(***************************************************************************)
Model == "llama3.2:3b-instruct-fp16"

AxiosResolves(answer) == answer.status >= 200 /\ answer.status < 300

\* A variant that drops the backend's own message.
RequestFailedTextGeneric(message) ==
  <<"Ollama request failed", ". Please ensure Ollama is running and the model '",
    Model, "' is available.">>

RequestFailedText(message) ==
  <<"Ollama request failed: ", message,
    ". Please ensure Ollama is running and the model '", Model, "' is available.">>

GenerateRule(naturalLanguageQuery, answer) ==
  IF AxiosResolves(answer) THEN ParseJsonFromResponse(answer.data)
  ELSE RuleFailure(RequestFailedText(answer.message), JUndefined)

(***************************************************************************)
(* CSVProcessor.loadTransactions: a row is its sequence of cells, a cell   *)
(* is a text.  Of FIELD_MAPPING the model keeps the columns the pipeline   *)
(* reads, at their own indices (the row array is 0-based, a sequence is    *)
(* 1-based).                                                               *)
(***************************************************************************)
FieldMapping ==
  << [index |-> 3, name |-> "merchant", type |-> "string"],
     [index |-> 4, name |-> "category", type |-> "string"],
     [index |-> 5, name |-> "amt", type |-> "number"] >>

\* parseFloat(value) || 0 (line 31): white space skipped, a leading number read.
ParseFloatOrZero(cell) ==
  LET t == TrimStart(cell) IN
  IF t # <<>> /\ Head(t) \in NumLexemes THEN JNum(NumOf(Head(t))) ELSE JNum(0)

\* Lines 29-42
ConvertCell(type, cell) ==
  IF type = "number" THEN ParseFloatOrZero(cell) ELSE JStr(Trim(cell))

\* Lines 22-46: only the columns the row has become fields of the record.
LoadRow(rowArray) ==
  LET present == {i \in 1..Len(FieldMapping) : FieldMapping[i].index < Len(rowArray)}
      at(name) == CHOOSE i \in present : FieldMapping[i].name = name
  IN [name \in {FieldMapping[i].name : i \in present} |->
        ConvertCell(FieldMapping[at(name)].type, rowArray[FieldMapping[at(name)].index + 1])]

LoadTransactions(rows) == [i \in 1..Len(rows) |-> LoadRow(rows[i])]

\* record[name], undefined when the record has no such field.
Field(record, name) == IF name \in DOMAIN record THEN record[name] ELSE JUndefined

(***************************************************************************)
(* json-rules-engine as the service uses it (new Engine(), addRule, run    *)
(* with the record as runtime facts, default options and operators).       *)
(***************************************************************************)
EngineOperators ==
  {"equal", "notEqual", "in", "notIn", "contains", "doesNotContain",
   "lessThan", "lessThanInclusive", "greaterThan", "greaterThanInclusive"}

\* Condition.booleanOperator: "any" is looked up before "all".
BooleanOperator(c) ==
  IF Has(c, "any") THEN "any" ELSE IF Has(c, "all") THEN "all" ELSE ""

\* new Condition(properties) throws.
RECURSIVE ConditionThrows(_)
ConditionThrows(c) ==
  IF ~Truthy(c) THEN TRUE
  ELSE IF BooleanOperator(c) # ""
       THEN LET sub == Get(c, BooleanOperator(c)) IN
            \/ sub.t # "arr"
            \/ \E i \in 1..Len(sub.a) : ConditionThrows(sub.a[i])
       ELSE ~Has(c, "fact") \/ ~Has(c, "operator") \/ ~Has(c, "value")

\* engine.addRule(jsonRule) throws: a missing "event" or "conditions", a root
\* without "all"/"any", a condition the constructor refuses, an event
\* without "type".
AddRuleThrows(rule) ==
  \/ Nullish(rule)
  \/ ~Has(rule, "event") \/ ~Has(rule, "conditions")
  \/ /\ Truthy(Get(rule, "conditions"))
     /\ \/ BooleanOperator(Get(rule, "conditions")) = ""
        \/ ConditionThrows(Get(rule, "conditions"))
  \/ /\ Truthy(Get(rule, "event"))
     /\ ~Has(Get(rule, "event"), "type")

\* a === b on the values a record and a rule hold.
StrictEqual(a, b) ==
  /\ a.t = b.t
  /\ a.t \in {"null", "undefined", "bool", "num", "str"}
  /\ a = b

\* ToNumber for a relational comparison; nan = TRUE is NaN.
ToNumber(v) ==
  CASE v.t = "num" -> [nan |-> FALSE, n |-> v.n]
    [] v.t = "null" -> [nan |-> FALSE, n |-> 0]
    [] v.t = "bool" -> [nan |-> FALSE, n |-> IF v.b THEN 1 ELSE 0]
    [] v.t = "str" /\ Len(Trim(v.s)) = 0 -> [nan |-> FALSE, n |-> 0]
    [] v.t = "str" /\ Len(Trim(v.s)) = 1 /\ Trim(v.s)[1] \in NumLexemes ->
         [nan |-> FALSE, n |-> NumOf(Trim(v.s)[1])]
    [] OTHER -> [nan |-> TRUE, n |-> 0]

\* The numberValidator of the ordering operators: the fact value parses as a number.
NumberValidator(a) ==
  \/ a.t = "num"
  \/ a.t = "str" /\ TrimStart(a.s) # <<>> /\ Head(TrimStart(a.s)) \in NumLexemes

\* b.indexOf(a) > -1 for an array b.
IndexOfArray(b, a) == \E i \in 1..Len(b.a) : StrictEqual(b.a[i], a)

\* One leaf condition on one record: "true", "false" or "throw".
EvaluateLeaf(c, record) ==
  LET operator == Get(c, "operator")
      fact == Get(c, "fact")
      b == Get(c, "value")
      known == operator.t = "str" /\ Len(operator.s) = 1 /\ operator.s[1] \in EngineOperators
      defined == fact.t = "str" /\ Len(fact.s) = 1 /\ fact.s[1] \in DOMAIN record
      a == record[fact.s[1]]
      op == operator.s[1]
      bool(x) == IF x THEN "true" ELSE "false"
      x == ToNumber(a)
      y == ToNumber(b)
      ordered == NumberValidator(a) /\ ~x.nan /\ ~y.nan /\ b.t \in {"num", "str", "null", "bool"}
  IN IF ~known THEN "throw"           \* Unknown operator
     ELSE IF ~defined THEN "throw"    \* Undefined fact
     ELSE CASE op = "equal" -> bool(StrictEqual(a, b))
            [] op = "notEqual" -> bool(~StrictEqual(a, b))
            [] op = "lessThan" -> bool(ordered /\ x.n < y.n)
            [] op = "lessThanInclusive" -> bool(ordered /\ x.n <= y.n)
            [] op = "greaterThan" -> bool(ordered /\ x.n > y.n)
            [] op = "greaterThanInclusive" -> bool(ordered /\ x.n >= y.n)
            [] op = "in" -> IF b.t = "arr" THEN bool(IndexOfArray(b, a)) ELSE "throw"
            [] op = "notIn" -> IF b.t = "arr" THEN bool(~IndexOfArray(b, a)) ELSE "throw"
            \* contains and doesNotContain ask for an array fact value first
            [] OTHER -> "false"

\* A condition tree on one record.  The conditions of a group have the same
\* priority and are all evaluated: one that throws rejects the run.
RECURSIVE EvaluateCondition(_, _)
EvaluateCondition(c, record) ==
  IF BooleanOperator(c) = "" THEN EvaluateLeaf(c, record)
  ELSE LET sub == Get(c, BooleanOperator(c)).a
           res == [i \in 1..Len(sub) |-> EvaluateCondition(sub[i], record)]
       IN IF \E i \in 1..Len(sub) : res[i] = "throw" THEN "throw"
          ELSE IF Len(sub) = 0 THEN "true"
          ELSE IF BooleanOperator(c) = "all"
               THEN (IF \A i \in 1..Len(sub) : res[i] = "true" THEN "true" ELSE "false")
               ELSE (IF \E i \in 1..Len(sub) : res[i] = "true" THEN "true" ELSE "false")

\* The event the engine emits for a rule that holds: its type, and its params
\* when the rule gives some.
RuleEvent(rule) ==
  LET event == Get(rule, "event") IN
  IF Truthy(Get(event, "params"))
  THEN JObj(<<<<"type">>, <<"params">>>>, <<Get(event, "type"), Get(event, "params")>>)
  ELSE JObj(<<<<"type">>>>, <<Get(event, "type")>>)

\* engine.run(transaction): [throws, events]
EngineRun(rule, record) ==
  LET r == EvaluateCondition(Get(rule, "conditions"), record) IN
  [throws |-> r = "throw",
   events |-> IF r = "true" THEN <<RuleEvent(rule)>> ELSE <<>>]

\* engine.run(transaction) of an engine that holds these rules: the rules
\* have the same priority and are all run, their events in the rules' order.
RECURSIVE EngineRunAll(_, _)
EngineRunAll(rules, record) ==
  IF rules = <<>> THEN [throws |-> FALSE, events |-> <<>>]
  ELSE LET first == EngineRun(Head(rules), record)
           rest == EngineRunAll(Tail(rules), record)
       IN [throws |-> first.throws \/ rest.throws,
           events |-> first.events \o rest.events]

(***************************************************************************)
(* The result summary: OllamaIntegration.buildSummaryPrompt and            *)
(* generateFallbackSummary.  A matched record is the spread copy of line   *)
(* 115 of rule-engine-service.js: the record's fields and _matchedEvents.  *)
(***************************************************************************)
SampleSize == 10

MatchedCopy(transaction, events) ==
  [f \in DOMAIN transaction \cup {"_matchedEvents"} |->
     IF f = "_matchedEvents" THEN JArr(events) ELSE transaction[f]]

\* matchedTransactions.map(t => t.amt)
Amounts(matchedTransactions) ==
  [i \in 1..Len(matchedTransactions) |-> Field(matchedTransactions[i], "amt")]

\* Math.min(...amounts) and Math.max(...amounts): an undefined amount makes
\* both NaN, no amount at all makes them Infinity and -Infinity.
Extreme(amounts, sign) ==
  IF \E i \in 1..Len(amounts) : amounts[i].t # "num" THEN [kind |-> "NaN", n |-> 0]
  ELSE IF Len(amounts) = 0
       THEN [kind |-> IF sign < 0 THEN "Infinity" ELSE "-Infinity", n |-> 0]
       ELSE [kind |-> "num",
             n |-> CHOOSE n \in {amounts[i].n : i \in 1..Len(amounts)} :
                     \A i \in 1..Len(amounts) : sign * n >= sign * amounts[i].n]
LowestAmount(matchedTransactions) == Extreme(Amounts(matchedTransactions), -1)
HighestAmount(matchedTransactions) == Extreme(Amounts(matchedTransactions), 1)

\* matchedTransactions.find(t => t.amt === amount): the index of the first
\* one, 0 for undefined (NaN equals nothing).
FindByAmount(matchedTransactions, amount) ==
  LET hit(i) == /\ amount.kind = "num"
                /\ Field(matchedTransactions[i], "amt") = JNum(amount.n)
  IN IF \E i \in 1..Len(matchedTransactions) : hit(i)
     THEN CHOOSE i \in 1..Len(matchedTransactions) :
            hit(i) /\ \A j \in 1..(i - 1) : ~hit(j)
     ELSE 0

\* amount.toFixed(2) of a whole amount, Infinity or NaN
ToFixed2(amount) ==
  IF amount.kind = "num" THEN ToString(amount.n) \o ".00" ELSE amount.kind

\* ((count / total) * 100).toFixed(1): the nearest tenth, a tie upwards.
Percentage(count, total) ==
  IF total = 0 THEN (IF count = 0 THEN "NaN" ELSE "Infinity")
  ELSE LET tenths == (count * 2000 + total) \div (2 * total)
       IN ToString(tenths \div 10) \o "." \o ToString(tenths % 10)

\* A string interpolated into a template; undefined prints as "undefined".
Interpolate(v) == IF v.t = "str" THEN v.s ELSE <<"undefined">>

\* buildSummaryPrompt throws where line 170 calls toFixed on the undefined
\* amount of one of the first ten matched records.
BuildSummaryPromptThrows(matchedTransactions) ==
  \E i \in 1..Len(matchedTransactions) :
    i <= SampleSize /\ Field(matchedTransactions[i], "amt").t # "num"

NoMatchSummary(originalQuery, totalTransactions) ==
  <<"No transactions matched the criteria \"", originalQuery, "\" out of ",
    ToString(totalTransactions), " total transactions.">>

StatisticsSummary(originalQuery, matchedTransactions, totalTransactions) ==
  LET low == LowestAmount(matchedTransactions)
      high == HighestAmount(matchedTransactions)
      lowT == matchedTransactions[FindByAmount(matchedTransactions, low)]
      highT == matchedTransactions[FindByAmount(matchedTransactions, high)]
  IN <<"Found ", ToString(Len(matchedTransactions)), " transactions (",
       Percentage(Len(matchedTransactions), totalTransactions),
       "% of total) matching \"", originalQuery, "\". The lowest amount was $",
       ToFixed2(low), " at ">> \o Interpolate(Field(lowT, "merchant"))
     \o <<", and the highest was $", ToFixed2(high), " at ">>
     \o Interpolate(Field(highT, "merchant")) \o <<".">>

\* generateFallbackSummary: [throws, text].  Reading .merchant of the
\* undefined result of find (lines 262-265) is a TypeError.
GenerateFallbackSummary(originalQuery, matchedTransactions, totalTransactions) ==
  IF Len(matchedTransactions) = 0
  THEN [throws |-> FALSE, text |-> NoMatchSummary(originalQuery, totalTransactions)]
  ELSE IF FindByAmount(matchedTransactions, LowestAmount(matchedTransactions)) = 0
  THEN [throws |-> TRUE, text |-> <<>>]
  ELSE [throws |-> FALSE,
        text |-> StatisticsSummary(originalQuery, matchedTransactions, totalTransactions)]

\* The return value of generateResultSummary once the backend has answered
\* (lines 67-78), or the exception that leaves it: [throws, success, summary,
\* fallbackSummary].
SummaryResult(originalQuery, matchedTransactions, totalTransactions, answer) ==
  IF AxiosResolves(answer) /\ answer.data.t = "str"
  THEN [throws |-> FALSE, success |-> TRUE, summary |-> Trim(answer.data.s),
        fallbackSummary |-> <<>>]
  ELSE LET fb == GenerateFallbackSummary(originalQuery, matchedTransactions,
                                         totalTransactions)
       IN [throws |-> fb.throws, success |-> FALSE, summary |-> <<>>,
           fallbackSummary |-> fb.text]

(***************************************************************************)
(* The inputs: what the backend may answer, what the CSV file may hold,    *)
(* what the user may ask.                                                  *)
(***************************************************************************)
Cond(fact, operator, value) ==
  JObj(<<<<"fact">>, <<"operator">>, <<"value">>>>, <<S(fact), S(operator), value>>)
Params == JObj(<<<<"message">>>>, <<S("matches")>>)
Event == JObj(<<<<"type">>, <<"params">>>>, <<S("transaction-match"), Params>>)
EventNoType == JObj(<<<<"params">>>>, <<Params>>)
RuleOf(group, conds, event) ==
  JObj(<<<<"conditions">>, <<"event">>>>, <<JObj(<<<<group>>>>, <<JArr(conds)>>), event>>)

AmtUnder10 == Cond("amt", "lessThan", JNum(10))
AmtOver10 == Cond("amt", "greaterThan", JNum(10))
IsFood == Cond("category", "equal", S("food"))
IsTravel == Cond("category", "equal", S("travel"))

RuleAmtUnder10 == RuleOf("all", <<AmtUnder10>>, Event)
RuleFoodOrOver10 == RuleOf("any", <<IsFood, AmtOver10>>, Event)
RuleFood == RuleOf("all", <<IsFood>>, Event)
RuleEquals == RuleOf("all", <<Cond("amt", "equals", JNum(5))>>, Event)
RuleAllAndAny ==
  JObj(<<<<"conditions">>, <<"event">>>>,
       <<JObj(<<<<"all">>, <<"any">>>>, <<JArr(<<AmtUnder10>>), JArr(<<IsTravel>>)>>), Event>>)
RuleNoEventType == RuleOf("all", <<AmtUnder10>>, EventNoType)
\* A rule whose message speaks of the tags the prompt asks for.
RuleTagsInMessage ==
  RuleOf("all", <<AmtUnder10>>,
         JObj(<<<<"type">>, <<"params">>>>,
              << S("transaction-match"),
                 JObj(<<<<"message">>>>,
                      <<JStr(<<"<result>", "under", " ", "10", "</result>">>)>>) >>))

\* The JSON values a completion may spell out.
GeneratedValues ==
  { RuleAmtUnder10, RuleFoodOrOver10, RuleFood, RuleEquals, RuleAllAndAny,
    RuleNoEventType, RuleTagsInMessage,
    JObj(<<<<"conditions">>>>, <<JObj(<<<<"all">>>>, <<JArr(<<AmtUnder10>>)>>)>>),
    RuleOf("all", <<>>, Event),
    RuleOf("all", <<JNull>>, Event),
    RuleOf("any", <<JObj(<<<<"fact">>, <<"operator">>>>, <<S("amt"), S("equal")>>)>>, Event),
    JObj(<<>>, <<>>), JNull, JNum(5), S("none"), JArr(<<>>) }

\* The ways a completion wraps its JSON text.
Wrappers == {"raw", "tags", "closing tag", "fence", "prose"}
Wrap(wrapper, txt) ==
  CASE wrapper = "tags" -> <<"<result>", "\n">> \o txt \o <<"\n", "</result>">>
    [] wrapper = "closing tag" -> txt \o <<"\n", "</result>">>
    [] wrapper = "fence" -> <<FENCE, "json", "\n">> \o txt \o <<"\n", FENCE>>
    [] wrapper = "prose" -> <<"Here", " ", "is", " ", "the", " ", "rule", "\n">>
                            \o txt \o <<"\n", "Done">>
    [] OTHER -> txt

\* Completions that hold no JSON text at all.
ProseCompletions ==
  { <<"I", " ", "cannot", " ", "help">>,
    <<"{", QUOTE, "conditions", QUOTE, ":">>,
    <<"use", " ", "{", "field", "}", " ", "names">> }

\* Every value bare, and a rule and a number in every wrapping.
Completions ==
  {Stringify(v) : v \in GeneratedValues}
  \cup {Wrap(w, Stringify(v)) : w \in Wrappers, v \in {RuleAmtUnder10, JNum(5)}}
  \cup ProseCompletions

Answer(status, message, data) == [status |-> status, message |-> message, data |-> data]
Unreachable == Answer(0, "connect ECONNREFUSED 127.0.0.1:11434", JUndefined)
ServerError == Answer(500, "Request failed with status code 500", JUndefined)

GenerationAnswers ==
  {Unreachable, ServerError, Answer(200, "", JUndefined),
   Answer(201, "", JStr(Stringify(RuleAmtUnder10)))}
  \cup {Answer(200, "", JStr(c)) : c \in Completions}

SummaryAnswers ==
  {Unreachable, ServerError, Answer(200, "", JUndefined),
   Answer(200, "", JStr(<<" ", "Some", " ", "transactions", " ", "matched", "\n">>))}

AvailabilityAnswers == {Unreachable, ServerError, Answer(200, "", JUndefined),
                        Answer(204, "", JUndefined)}

Cell(w) == <<w>>
RowFood == <<Cell("id"), Cell("ts"), Cell("card"), Cell("Cafe"), Cell("food"), Cell("5")>>
RowTravel == <<Cell("id"), Cell("ts"), Cell("card"), Cell("Rail"), <<" ", "travel">>, Cell("15")>>
RowShort == <<Cell("id"), Cell("ts"), Cell("card"), Cell("Deli"), Cell("food")>>
RowLunch == <<Cell("id"), Cell("ts"), Cell("card"), Cell("Bistro"), Cell("food"), Cell("7")>>
RowKinds == {RowFood, RowTravel, RowShort}

RECURSIVE SeqsUpTo(_, _)
SeqsUpTo(set, n) ==
  IF n = 0 THEN {<<>>}
  ELSE LET shorter == SeqsUpTo(set, n - 1)
       IN shorter \cup {Append(q, e) : q \in {r \in shorter : Len(r) = n - 1}, e \in set}

\* As many rows with an amount as the summary prompt samples.
SampleRows == [i \in 1..SampleSize |-> IF i % 2 = 1 THEN RowFood ELSE RowLunch]

\* The files: up to MaxRows rows of any kind, and the sample rows alone or
\* followed by one more row of any kind.
Files ==
  SeqsUpTo(RowKinds, MaxRows)
  \cup {SampleRows \o rows : rows \in SeqsUpTo(RowKinds, 1)}

Queries == {"amount under 10", "food or above 10"}

(***************************************************************************)
(* NaturalLanguageParser and the tables of field-mapping.js.  A text is    *)
(* its sequence of lexemes: words, operator signs and white space.         *)
(***************************************************************************)
\* The names of FIELD_MAPPING, in the order of its keys.
FieldNames ==
  <<"transactionId", "timestamp", "cardNumber", "merchant", "category", "amt",
    "firstName", "lastName", "gender", "streetAddress", "city", "state", "zip",
    "lat", "long", "cityPop", "job", "dob", "transHash", "unixTime", "merLat",
    "merLong", "isFraud", "merZip">>

\* FIELD_ALIASES: <<alias, field name>>
FieldAliases ==
  { <<<<"amount">>, "amt">>, <<<<"price">>, "amt">>, <<<<"cost">>, "amt">>,
    <<<<"value">>, "amt">>, <<<<"dollars">>, "amt">>, <<<<"money">>, "amt">>,
    <<<<"transaction", " ", "amount">>, "amt">>,
    <<<<"store">>, "merchant">>, <<<<"shop">>, "merchant">>,
    <<<<"business">>, "merchant">>, <<<<"vendor">>, "merchant">>,
    <<<<"company">>, "merchant">>,
    <<<<"name">>, "firstName">>, <<<<"first", " ", "name">>, "firstName">>,
    <<<<"last", " ", "name">>, "lastName">>, <<<<"surname">>, "lastName">>,
    <<<<"location">>, "city">>, <<<<"place">>, "city">>,
    <<<<"fraud">>, "isFraud">>, <<<<"fraudulent">>, "isFraud">>,
    <<<<"suspicious">>, "isFraud">> }

\* OPERATOR_MAPPING: <<text, operator>>
OperatorMapping ==
  { <<<<"less", " ", "than">>, "lessThan">>, <<<<"lt">>, "lessThan">>,
    <<<<"<">>, "lessThan">>,
    <<<<"greater", " ", "than">>, "greaterThan">>, <<<<"gt">>, "greaterThan">>,
    <<<<">">>, "greaterThan">>,
    <<<<"equal", " ", "to">>, "equal">>, <<<<"equals">>, "equal">>,
    <<<<"is">>, "equal">>, <<<<"=">>, "equal">>, <<<<"==">>, "equal">>,
    <<<<"not", " ", "equal", " ", "to">>, "notEqual">>,
    <<<<"not", " ", "equals">>, "notEqual">>, <<<<"!=">>, "notEqual">>,
    <<<<"less", " ", "than", " ", "or", " ", "equal">>, "lessThanInclusive">>,
    <<<<"lte">>, "lessThanInclusive">>, <<<<"<=">>, "lessThanInclusive">>,
    <<<<"greater", " ", "than", " ", "or", " ", "equal">>, "greaterThanInclusive">>,
    <<<<"gte">>, "greaterThanInclusive">>, <<<<">=">>, "greaterThanInclusive">>,
    <<<<"contains">>, "contains">>, <<<<"includes">>, "contains">>,
    <<<<"in">>, "in">> }

\* table[text] of a plain object: the own entry, else what every object
\* inherits (constructor is a function), else undefined.
Lookup(table, text) ==
  IF \E p \in table : p[1] = text
  THEN S((CHOOSE p \in table : p[1] = text)[2])
  ELSE IF text = <<"constructor">> THEN [t |-> "function"]
  ELSE JUndefined

\* String.prototype.toLowerCase on one lexeme
ToLowerCase(w) ==
  CASE w = "Amount" -> "amount" [] w = "AMT" -> "amt" [] w = "Fraud" -> "fraud"
    [] w = "Category" -> "category" [] w = "First" -> "first" [] w = "Name" -> "name"
    [] w = "IS" -> "is" [] w = "Show" -> "show" [] w = "Transactions" -> "transactions"
    [] w = "transactionId" -> "transactionid" [] w = "cardNumber" -> "cardnumber"
    [] w = "firstName" -> "firstname" [] w = "lastName" -> "lastname"
    [] w = "streetAddress" -> "streetaddress" [] w = "cityPop" -> "citypop"
    [] w = "transHash" -> "transhash" [] w = "unixTime" -> "unixtime"
    [] w = "merLat" -> "merlat" [] w = "merLong" -> "merlong"
    [] w = "isFraud" -> "isfraud" [] w = "merZip" -> "merzip"
    [] OTHER -> w

ToLowerCaseText(text) == [i \in 1..Len(text) |-> ToLowerCase(text[i])]

\* normalizeField (lines 161-178)
NormalizeField(fieldText) ==
  LET normalized == Trim(ToLowerCaseText(fieldText))
      direct == {i \in 1..Len(FieldNames) : <<ToLowerCase(FieldNames[i])>> = normalized}
  IN IF Truthy(Lookup(FieldAliases, normalized)) THEN Lookup(FieldAliases, normalized)
     ELSE IF direct # {} THEN S(FieldNames[CHOOSE i \in direct : \A j \in direct : i <= j])
     ELSE JStr(normalized)

\* normalizeOperator (lines 180-183)
NormalizeOperator(operatorText) ==
  LET normalized == Trim(ToLowerCaseText(operatorText)) IN
  IF Truthy(Lookup(OperatorMapping, normalized)) THEN Lookup(OperatorMapping, normalized)
  ELSE JStr(operatorText)

\* parseValue (lines 185-196) of a text without white space inside: a number
\* when parseFloat reads one, else the text without a quote at either end.
ParserParseValue(valueText) ==
  LET trimmed == Trim(valueText)
  IN IF trimmed # <<>> /\ Head(trimmed) \in NumLexemes THEN JNum(NumOf(Head(trimmed)))
     ELSE IF Len(trimmed) >= 1
          THEN JStr((IF Head(trimmed) \in {QUOTE, "'"} THEN <<>> ELSE <<Head(trimmed)>>)
                    \o (IF Len(trimmed) >= 2
                        THEN SubSeq(trimmed, 2, Len(trimmed) - 1)
                             \o (IF trimmed[Len(trimmed)] \in {QUOTE, "'"}
                                 THEN <<>> ELSE <<trimmed[Len(trimmed)]>>)
                        ELSE <<>>))
          ELSE JStr(<<>>)

\* validateCondition (lines 198-210): an unknown field is only warned about.
ValidateCondition(condition) ==
  /\ Truthy(condition.field)
  /\ Truthy(condition.operator)
  /\ condition.value.t # "undefined"

\* A value inside a template string.
TemplateText(v) ==
  CASE v.t = "str" -> v.s
    [] v.t = "num" -> <<ToString(v.n)>>
    [] v.t = "function" -> <<"function Object() { [native code] }">>
    [] OTHER -> <<v.t>>

\* generateJsonRule (lines 212-231)
GenerateJsonRule(condition) ==
  JObj(<<<<"conditions">>, <<"event">>>>,
       << JObj(<<<<"all">>>>,
               <<JArr(<<JObj(<<<<"fact">>, <<"operator">>, <<"value">>>>,
                             <<condition.field, condition.operator, condition.value>>)>>)>>),
          JObj(<<<<"type">>, <<"params">>>>,
               << S("transaction-match"),
                  JObj(<<<<"message">>, <<"condition">>>>,
                       << JStr(<<"Transaction matches criteria: ">>
                               \o TemplateText(condition.field) \o <<" ">>
                               \o TemplateText(condition.operator) \o <<" ">>
                               \o TemplateText(condition.value)),
                          JObj(<<<<"field">>, <<"operator">>, <<"value">>>>,
                               <<condition.field, condition.operator,
                                 condition.value>>) >>) >>) >>)

(***************************************************************************)
(* The regular expressions of the parser, read on lexemes: a word of a     *)
(* pattern matches a whole lexeme, \w+ a lexeme that is no sign and no     *)
(* white space, [^\s]+ a longest run of lexemes that are not white space.  *)
(***************************************************************************)
IsWord(w) == w \notin WS \cup {"<=", ">=", "<", ">", "=", "==", "!=", QUOTE, "'"}

\* The operator alternatives of patterns 1 and 2, and those of pattern 3.
GeneralOperators ==
  { <<"less", " ", "than">>, <<"greater", " ", "than">>, <<"equal", " ", "to">>,
    <<"equals">>, <<"is">>, <<"lt">>, <<"gt">>, <<"lte">>, <<"gte">>, <<"<=">>,
    <<">=">>, <<"<">>, <<">">>, <<"=">>, <<"==">>, <<"!=">> }
EqualityOperators == { <<"is">>, <<"equals">>, <<"=">>, <<"==">> }

\* \s+ after lexeme p: the position of the next lexeme that is not white
\* space (past the end when there is none), 0 when no white space follows.
AfterSpace(text, p) ==
  IF p + 1 > Len(text) \/ text[p + 1] \notin WS THEN 0
  ELSE LET rest == {q \in (p + 2)..Len(text) : text[q] \notin WS} IN
       IF rest = {} THEN Len(text) + 1
       ELSE CHOOSE q \in rest : \A r \in rest : q <= r

\* The words (each followed by \s+) read from lexeme p on, whatever their
\* case: the position after them, 0 when they are not there.
RECURSIVE PrefixAt(_, _, _)
PrefixAt(text, p, words) ==
  IF words = <<>> THEN p
  ELSE IF p > Len(text) \/ ToLowerCase(text[p]) # Head(words) THEN 0
  ELSE IF AfterSpace(text, p) = 0 THEN 0
  ELSE PrefixAt(text, AfterSpace(text, p), Tail(words))

\* The three groups of a match whose first group starts at lexeme i: the
\* first group is greedy, so the operator is the last one that can be one.
GroupsFrom(text, i, ops) ==
  LET \* (\w+(?:\s+\w+)*) on the lexemes i..k
      WordRun(k) ==
        /\ IsWord(text[i]) /\ IsWord(text[k])
        /\ \A m \in i..k : IsWord(text[m]) \/ text[m] \in WS
      \* an operator on the lexemes j..e, between white space, with a value
      \* after it
      OperatorAt(j, e) ==
        /\ e < Len(text)
        /\ text[j - 1] \in WS
        /\ ToLowerCaseText(SubSeq(text, j, e)) \in ops
        /\ AfterSpace(text, e) \in 1..Len(text)
      ends == {je \in {<<j, j + Len(op) - 1>> : j \in (i + 1)..Len(text), op \in ops} :
                 /\ OperatorAt(je[1], je[2])
                 /\ \E k \in i..Len(text) : WordRun(k) /\ AfterSpace(text, k) = je[1]}
  IN IF ends = {} THEN <<>>
     ELSE LET je == CHOOSE x \in ends : \A y \in ends : y[1] <= x[1]
              k == CHOOSE k \in i..Len(text) : WordRun(k) /\ AfterSpace(text, k) = je[1]
              v == AfterSpace(text, je[2])
              stops == {w \in v..Len(text) : w = Len(text) \/ text[w + 1] \in WS}
          IN << [field |-> SubSeq(text, i, k),
                 operator |-> SubSeq(text, je[1], je[2]),
                 value |-> SubSeq(text, v, CHOOSE w \in stops : \A u \in stops : w <= u)] >>

\* query.match(regex) of a pattern whose groups come after the words of
\* prefix: the leftmost match, <<>> when there is none.
Match(text, prefix, ops) ==
  LET starts == {p \in 1..Len(text) :
                   /\ IsWord(text[p])
                   /\ PrefixAt(text, p, prefix) # 0
                   /\ GroupsFrom(text, PrefixAt(text, p, prefix), ops) # <<>>}
  IN IF starts = {} THEN <<>>
     ELSE GroupsFrom(text, PrefixAt(text, CHOOSE p \in starts : \A r \in starts : p <= r,
                                    prefix), ops)

\* this.patterns (lines 92-129): what extract gives on the match of the
\* n-th pattern, <<>> when the pattern does not match.
Extract(n, text) ==
  LET \* /(fraud|fraudulent)\s+transactions/i
      MatchesFraud ==
        \E p \in 1..Len(text) :
          /\ ToLowerCase(text[p]) \in {"fraud", "fraudulent"}
          /\ AfterSpace(text, p) \in 1..Len(text)
          /\ ToLowerCase(text[AfterSpace(text, p)]) = "transactions"
      general(m) ==
        IF m = <<>> THEN <<>>
        ELSE << [field |-> NormalizeField(m[1].field),
                 operator |-> NormalizeOperator(m[1].operator),
                 value |-> ParserParseValue(m[1].value)] >>
      equality(m) ==
        IF m = <<>> THEN <<>>
        ELSE << [field |-> NormalizeField(m[1].field),
                 operator |-> S("equal"),
                 value |-> ParserParseValue(m[1].value)] >>
  IN CASE n = 1 -> general(Match(text, <<"show", "me", "transactions", "with">>,
                                 GeneralOperators))
       [] n = 2 -> general(Match(text, <<>>, GeneralOperators))
       [] n = 3 -> equality(Match(text, <<"transactions", "where">>, EqualityOperators))
       [] n = 4 -> IF MatchesFraud
                   THEN << [field |-> S("isFraud"), operator |-> S("equal"),
                            value |-> JNum(1)] >>
                   ELSE <<>>

PatternCount == 4

\* The first pattern in list order that matches and whose condition
\* validates (lines 135-152), 0 when there is none.
FirstPattern(text) ==
  LET good == {n \in 1..PatternCount :
                 LET condition == Extract(n, text) IN
                 condition # <<>> /\ ValidateCondition(condition[1])}
  IN IF good = {} THEN 0 ELSE CHOOSE n \in good : \A m \in good : n <= m

\* The loop of parseQuery from the n-th pattern on (lines 135-158).
RECURSIVE PatternsLoop(_, _)
PatternsLoop(text, n) ==
  IF n > PatternCount
  THEN [success |-> FALSE,
        error |-> "Could not parse the query. Please try a format like: \"show me transactions with amount less than 10\"",
        condition |-> JUndefined, rule |-> JUndefined]
  ELSE LET condition == Extract(n, text) IN
       IF condition # <<>> /\ ValidateCondition(condition[1])
       THEN [success |-> TRUE, error |-> "",
             condition |-> condition[1], rule |-> GenerateJsonRule(condition[1])]
       ELSE PatternsLoop(text, n + 1)

\* parseQuery (lines 132-159)
ParseQuery(text) == PatternsLoop(text, 1)

(***************************************************************************)
(* The texts given to the parser.                                          *)
(***************************************************************************)
MaxWords == 2

\* The pieces with one space between every two of them.
RECURSIVE Spaced(_)
Spaced(pieces) ==
  IF pieces = <<>> THEN <<>>
  ELSE IF Len(pieces) = 1 THEN Head(pieces)
  ELSE Head(pieces) \o <<" ">> \o Spaced(Tail(pieces))

\* The query the third pattern is written for.
CategoryQuery ==
  <<"transactions", " ", "where", " ", "category", " ", "is", " ", "food_dining">>

\* Queries: the opening words of a pattern or none, up to MaxWords words,
\* an operator or none, a value or none.
QueryTexts ==
  LET prefixes == { <<>>, <<<<"Show">>, <<"me">>, <<"transactions">>, <<"with">>>>,
                    <<<<"transactions">>, <<"where">>>> }
      words == { <<"amount">>, <<"Category">>, <<"is">>, <<"fraud">>, <<"transactions">> }
      operators == { <<>>, <<<<"is">>>>, <<<<"=">>>>, <<<<"less", " ", "than">>>>,
                     <<<<"IS">>>> }
      values == { <<>>, <<<<"10">>>>, <<<<"food_dining">>>> }
  IN { Spaced(prefix \o run \o operator \o value) :
         prefix \in prefixes, run \in SeqsUpTo(words, MaxWords),
         operator \in operators, value \in values }
     \cup {CategoryQuery}

\* Field texts: a phrase with or without a space before and after it.
FieldTexts ==
  LET phrases ==
        { <<>>, <<"amount">>, <<"Amount">>, <<"AMT">>, <<"amt">>, <<"fraud">>, <<"Fraud">>,
          <<"isFraud">>, <<"isfraud">>, <<"First", " ", "Name">>, <<"firstName">>,
          <<"transaction", " ", "amount">>, <<"category">>, <<"Category">>, <<"merZip">>,
          <<"foo">>, <<"transactions", " ", "where", " ", "category">>, <<"constructor">> }
      paddings == { <<>>, <<" ">> }
  IN { before \o phrase \o after :
         before \in paddings, phrase \in phrases, after \in paddings }

ParserCalls ==
  [kind : {"parseQuery"}, text : QueryTexts]
  \cup [kind : {"normalizeField"}, text : FieldTexts]

(***************************************************************************)
(* The state.  isInitialized and transactions are the service's fields;    *)
(* the other variables are the locals of one processQuery call and what    *)
(* it has sent, kept per call.                                             *)
(***************************************************************************)
Calls == {1, 2}

VARIABLES
  isInitialized,     \* RuleEngineService.isInitialized
  transactions,      \* CSVProcessor.transactions
  initResult,        \* what the last initialize() returned
  engine,            \* RuleEngineService.engine: the rules it holds
  served,            \* a processQuery call of this service has returned
  pc,                \* where each call stands
  query,             \* naturalLanguageQuery
  generationAnswer,  \* what the backend answered to the generation request
  ruleResult,        \* ruleResult of line 58
  callEngine,        \* engine of line 103: the rules it holds
  evalTransactions,  \* transactions of line 106
  evalIndex,         \* the position of the loop of line 111
  matched,           \* matchedTransactions of line 107
  sent,              \* requests and engine runs of the call so far
  summaryFailed,     \* the summary request of the call failed
  result,            \* the value processQuery resolved to
  thrown,            \* the exception processQuery rejected with, "" if none
  nlInput,           \* the call made on a NaturalLanguageParser
  nlOutput           \* what that call returned

vars == <<isInitialized, transactions, initResult, engine, served, pc, query,
          generationAnswer, ruleResult, callEngine, evalTransactions, evalIndex, matched, sent,
          summaryFailed, result, thrown, nlInput, nlOutput>>

parser == <<nlInput, nlOutput>>
service == <<isInitialized, transactions, initResult, engine, served>>
evaluation == <<callEngine, evalTransactions, evalIndex, matched>>

NoRuleResult == RuleFailure(<<>>, JUndefined)
NoAnswer == Answer(0, "", JUndefined)
NoSent == [generation |-> 0, run |-> 0, summary |-> 0]
NoResults == [matchCount |-> 0, totalTransactions |-> 0, matchPercentage |-> ""]
NoResult ==
  [success |-> FALSE, error |-> <<>>, helpMessage |-> "", query |-> "",
   generatedRule |-> JUndefined, matchedTransactions |-> <<>>,
   results |-> NoResults, summary |-> <<>>, source |-> ""]
NoInitResult ==
  [success |-> FALSE, error |-> "", message |-> "", ollamaAvailable |-> FALSE,
   transactionCount |-> 0]

HelpMessage ==
  "Please ensure Ollama is running and try queries like: \"show me transactions with amount less than 10\" or \"find transactions where category is food_dining\""
NotInitializedText == <<"Service not initialized. Call initialize() first.">>
OllamaRequiredText ==
  "Ollama is required but not available. Please ensure Ollama is running on http://localhost:11434 and the model is available."

NoParserCall == [kind |-> "none", text |-> <<>>]
NoOutput == [returned |-> FALSE, value |-> JUndefined]

ServiceInit ==
  /\ isInitialized = FALSE
  /\ transactions = <<>>
  /\ initResult = NoInitResult
  /\ engine = <<>>
  /\ served = FALSE
  /\ pc = [c \in Calls |-> "idle"]
  /\ query = [c \in Calls |-> ""]
  /\ generationAnswer = [c \in Calls |-> NoAnswer]
  /\ ruleResult = [c \in Calls |-> NoRuleResult]
  /\ callEngine = [c \in Calls |-> <<>>]
  /\ evalTransactions = [c \in Calls |-> <<>>]
  /\ evalIndex = [c \in Calls |-> 0]
  /\ matched = [c \in Calls |-> <<>>]
  /\ sent = [c \in Calls |-> NoSent]
  /\ summaryFailed = [c \in Calls |-> FALSE]
  /\ result = [c \in Calls |-> NoResult]
  /\ thrown = [c \in Calls |-> ""]

\* The service of the command line session; no parser is called.
Init ==
  /\ ServiceInit
  /\ nlInput = NoParserCall
  /\ nlOutput = NoOutput

(***************************************************************************)
(* RuleEngineService.initialize, called between queries.                   *)
(***************************************************************************)
\* isAvailable(): response.status === 200, false when the request fails.
IsAvailable(answer) == answer.status = 200

Initialize(loaded, file, answer) ==
  /\ \A c \in Calls : pc[c] = "idle"
  /\ IF ~loaded
     THEN \* loadTransactions rejected: the catch of line 36
          /\ initResult' = [NoInitResult EXCEPT !.error = "ENOENT: no such file or directory"]
          /\ UNCHANGED <<isInitialized, transactions>>
     ELSE /\ transactions' = LoadTransactions(file)
          /\ IF ~IsAvailable(answer)
             THEN /\ initResult' = [NoInitResult EXCEPT !.error = OllamaRequiredText]
                  /\ UNCHANGED isInitialized
             ELSE /\ isInitialized' = TRUE
                  /\ initResult' =
                       [success |-> TRUE, error |-> "",
                        message |-> "Rule engine service initialized successfully",
                        ollamaAvailable |-> TRUE,
                        transactionCount |-> Len(LoadTransactions(file))]
  /\ UNCHANGED <<engine, served, pc, query, generationAnswer, ruleResult, evaluation,
                 sent, summaryFailed, result, thrown,
                 parser>>

(***************************************************************************)
(* RuleEngineService.processQuery, one action per stretch between two      *)
(* awaits.                                                                 *)
(***************************************************************************)
\* A variant without the guard of lines 46-51.
StartQueryUnguarded(c, q) ==
  /\ pc[c] = "idle"
  /\ query' = [query EXCEPT ![c] = q]
  /\ pc' = [pc EXCEPT ![c] = "generating"]
  /\ sent' = [sent EXCEPT ![c].generation = @ + 1]
  /\ UNCHANGED <<service, parser, generationAnswer, ruleResult, evaluation, summaryFailed,
                 result, thrown>>

\* Lines 46-58: the guard, then the generation request is sent.
StartQuery(c, q) ==
  /\ pc[c] = "idle"
  /\ query' = [query EXCEPT ![c] = q]
  /\ IF ~isInitialized
     THEN /\ pc' = [pc EXCEPT ![c] = "done"]
          /\ result' = [result EXCEPT ![c] = [NoResult EXCEPT !.error = NotInitializedText]]
          /\ UNCHANGED sent
     ELSE /\ pc' = [pc EXCEPT ![c] = "generating"]
          /\ sent' = [sent EXCEPT ![c].generation = @ + 1]
          /\ UNCHANGED result
  /\ UNCHANGED <<service, parser, generationAnswer, ruleResult, evaluation, summaryFailed, thrown>>

\* What generateRule returns for each query and each answer of the backend.
GenerationTable ==
  [q \in Queries |-> [answer \in GenerationAnswers |-> GenerateRule(q, answer)]]

\* A variant that forgets the help message.
GenerationFailureNoHelp(generated) == [NoResult EXCEPT !.error = generated.error]

\* Lines 60-66: the failure result of a generation that did not succeed.
GenerationFailure(generated) ==
  [NoResult EXCEPT !.error = generated.error, !.helpMessage = HelpMessage]

\* A variant that adds the rule to the engine the service keeps.
ApplyRuleSharedEngine(serviceEngine, jsonRule) ==
  [rules |-> Append(serviceEngine, jsonRule),
   serviceEngine |-> Append(serviceEngine, jsonRule)]

\* Lines 103-104: a new engine that holds the rule alone; the engine the
\* constructor made (line 9) is left as it is.
ApplyRuleEngine(serviceEngine, jsonRule) ==
  [rules |-> <<jsonRule>>, serviceEngine |-> serviceEngine]

\* A variant that sends the generation request again when the generator
\* failed on the answer.
GenerationResolvesRetry(c, answer) ==
  /\ pc[c] = "generating"
  /\ ~GenerationTable[query[c]][answer].success
  /\ sent' = [sent EXCEPT ![c].generation = @ + 1]
  /\ UNCHANGED <<service, parser, pc, query, generationAnswer, ruleResult, evaluation,
                 summaryFailed, result, thrown>>

\* The generation request resolves: lines 58-72 and, for a rule, lines
\* 103-109 of applyRule up to the first engine.run.
GenerationResolves(c, answer) ==
  /\ pc[c] = "generating"
  /\ LET generated == GenerationTable[query[c]][answer] IN
     /\ ruleResult' = [ruleResult EXCEPT ![c] = generated]
     /\ generationAnswer' = [generationAnswer EXCEPT ![c] = answer]
     /\ IF ~generated.success
        THEN /\ pc' = [pc EXCEPT ![c] = "done"]
             /\ result' = [result EXCEPT ![c] = GenerationFailure(generated)]
             /\ UNCHANGED <<evaluation, engine, thrown>>
        ELSE IF AddRuleThrows(generated.rule)
        THEN /\ pc' = [pc EXCEPT ![c] = "rejected"]
             /\ thrown' = [thrown EXCEPT ![c] = "addRule"]
             /\ UNCHANGED <<evaluation, engine, result>>
        ELSE /\ pc' = [pc EXCEPT ![c] = "evaluating"]
             /\ callEngine' = [callEngine EXCEPT ![c] =
                  ApplyRuleEngine(engine, generated.rule).rules]
             /\ engine' = ApplyRuleEngine(engine, generated.rule).serviceEngine
             /\ evalTransactions' = [evalTransactions EXCEPT ![c] = transactions]
             /\ evalIndex' = [evalIndex EXCEPT ![c] = 1]
             /\ matched' = [matched EXCEPT ![c] = <<>>]
             /\ UNCHANGED <<result, thrown>>
  /\ UNCHANGED <<isInitialized, transactions, initResult, served, query, sent,
                 summaryFailed,
                 parser>>

\* A variant that puts the match in front (unshift for push).
UnshiftMatch(list, transaction, events) == <<MatchedCopy(transaction, events)>> \o list

\* matchedTransactions.push of line 115
PushMatch(list, transaction, events) == Append(list, MatchedCopy(transaction, events))

\* A variant that writes the match metadata on the record itself.
RecordsAfterPushInPlace(records, index, events) ==
  [records EXCEPT ![index] = MatchedCopy(@, events)]

\* The record array after line 115: the match is a spread copy, the array
\* and its records are as they were.
RecordsAfterPush(records, index, events) == records

\* A variant that gives up the pass at the first record whose run throws
\* (the try around the loop instead of inside it).
EvaluateRecordAbort(c) ==
  /\ pc[c] = "evaluating"
  /\ evalIndex[c] <= Len(evalTransactions[c])
  /\ LET transaction == evalTransactions[c][evalIndex[c]]
         run == EngineRunAll(callEngine[c], transaction)
     IN /\ IF ~run.throws /\ Len(run.events) > 0
           THEN matched' = [matched EXCEPT ![c] = PushMatch(@, transaction, run.events)]
           ELSE UNCHANGED matched
        /\ evalIndex' = [evalIndex EXCEPT ![c] =
             IF run.throws THEN Len(evalTransactions[c]) + 1 ELSE @ + 1]
  /\ sent' = [sent EXCEPT ![c].run = @ + 1]
  /\ UNCHANGED <<service, parser, pc, query, generationAnswer, ruleResult, callEngine,
                 evalTransactions, summaryFailed, result, thrown>>

\* A variant whose match list is one list of the service, which every call
\* in its pass pushes to and reads.
EvaluateRecordSharedList(c) ==
  /\ pc[c] = "evaluating"
  /\ evalIndex[c] <= Len(evalTransactions[c])
  /\ LET transaction == evalTransactions[c][evalIndex[c]]
         run == EngineRunAll(callEngine[c], transaction)
     IN IF ~run.throws /\ Len(run.events) > 0
        THEN matched' = [d \in Calls |->
                           IF pc[d] = "evaluating"
                           THEN PushMatch(matched[d], transaction, run.events)
                           ELSE matched[d]]
        ELSE UNCHANGED matched
  /\ evalIndex' = [evalIndex EXCEPT ![c] = @ + 1]
  /\ sent' = [sent EXCEPT ![c].run = @ + 1]
  /\ UNCHANGED <<service, parser, pc, query, generationAnswer, ruleResult, callEngine,
                 evalTransactions, summaryFailed, result, thrown>>

\* One pass of the loop of lines 111-124: engine.run on the next record.
EvaluateRecord(c) ==
  /\ pc[c] = "evaluating"
  /\ evalIndex[c] <= Len(evalTransactions[c])
  /\ LET transaction == evalTransactions[c][evalIndex[c]]
         run == EngineRunAll(callEngine[c], transaction)
         \* getTransactions() returns the array itself: the local of line 106
         \* and the processor's field are one array unless a load replaced it
         after(records) == RecordsAfterPush(records, evalIndex[c], run.events)
     IN IF ~run.throws /\ Len(run.events) > 0
        THEN /\ matched' = [matched EXCEPT ![c] = PushMatch(@, transaction, run.events)]
             /\ evalTransactions' = [evalTransactions EXCEPT ![c] = after(@)]
             /\ transactions' = IF transactions = evalTransactions[c]
                                THEN after(transactions) ELSE transactions
        ELSE UNCHANGED <<matched, evalTransactions, transactions>>
  /\ evalIndex' = [evalIndex EXCEPT ![c] = @ + 1]
  /\ sent' = [sent EXCEPT ![c].run = @ + 1]
  /\ UNCHANGED <<isInitialized, initResult, engine, served, pc, query,
                 generationAnswer, ruleResult, callEngine, summaryFailed, result, thrown,
                 parser>>

\* The loop is over: lines 126-127 and 76-81, then line 54 of
\* generateResultSummary and the summary request.
RequestSummary(c) ==
  /\ pc[c] = "evaluating"
  /\ evalIndex[c] > Len(evalTransactions[c])
  /\ IF BuildSummaryPromptThrows(matched[c])
     THEN /\ pc' = [pc EXCEPT ![c] = "rejected"]
          /\ thrown' = [thrown EXCEPT ![c] = "buildSummaryPrompt"]
          /\ UNCHANGED sent
     ELSE /\ pc' = [pc EXCEPT ![c] = "summarizing"]
          /\ sent' = [sent EXCEPT ![c].summary = @ + 1]
          /\ UNCHANGED thrown
  /\ UNCHANGED <<service, parser, query, generationAnswer, ruleResult, evaluation, summaryFailed, result>>

\* Lines 83-99
SuccessResult(q, rule, filteredTransactions, total, summaryResult) ==
  [success |-> TRUE, error |-> <<>>, helpMessage |-> "", query |-> q,
   generatedRule |-> rule, matchedTransactions |-> filteredTransactions,
   results |-> [matchCount |-> Len(filteredTransactions),
                totalTransactions |-> total,
                matchPercentage |-> Percentage(Len(filteredTransactions), total)],
   summary |-> IF summaryResult.success THEN summaryResult.summary
               ELSE IF summaryResult.fallbackSummary # <<>>
                    THEN summaryResult.fallbackSummary
                    ELSE <<"Summary generation failed.">>,
   source |-> "ollama"]

\* The summary request resolves: lines 67-78 of generateResultSummary, then
\* lines 83-99.
SummaryResolves(c, answer) ==
  /\ pc[c] = "summarizing"
  /\ LET summaryResult == SummaryResult(query[c], matched[c], Len(transactions), answer) IN
     /\ summaryFailed' = [summaryFailed EXCEPT ![c] = ~summaryResult.success]
     /\ IF summaryResult.throws
        THEN /\ pc' = [pc EXCEPT ![c] = "rejected"]
             /\ thrown' = [thrown EXCEPT ![c] = "generateFallbackSummary"]
             /\ UNCHANGED result
        ELSE /\ pc' = [pc EXCEPT ![c] = "done"]
             /\ result' = [result EXCEPT ![c] =
                  SuccessResult(query[c], ruleResult[c].rule, matched[c],
                                Len(transactions), summaryResult)]
             /\ UNCHANGED thrown
  /\ UNCHANGED <<service, parser, query, generationAnswer, ruleResult, evaluation, sent>>

\* The caller has its answer; the call's locals are gone.
Return(c) ==
  /\ pc[c] \in {"done", "rejected"}
  /\ pc' = [pc EXCEPT ![c] = "idle"]
  /\ query' = [query EXCEPT ![c] = ""]
  /\ ruleResult' = [ruleResult EXCEPT ![c] = NoRuleResult]
  /\ generationAnswer' = [generationAnswer EXCEPT ![c] = NoAnswer]
  /\ callEngine' = [callEngine EXCEPT ![c] = <<>>]
  /\ evalTransactions' = [evalTransactions EXCEPT ![c] = <<>>]
  /\ evalIndex' = [evalIndex EXCEPT ![c] = 0]
  /\ matched' = [matched EXCEPT ![c] = <<>>]
  /\ sent' = [sent EXCEPT ![c] = NoSent]
  /\ summaryFailed' = [summaryFailed EXCEPT ![c] = FALSE]
  /\ result' = [result EXCEPT ![c] = NoResult]
  /\ thrown' = [thrown EXCEPT ![c] = ""]
  /\ served' = TRUE
  /\ UNCHANGED <<isInitialized, transactions, initResult, engine,
                 parser>>

\* One query at a time, as the command line loop runs them.
Main == 1

Next ==
  \/ \E loaded \in BOOLEAN, file \in Files, answer \in AvailabilityAnswers :
       Initialize(loaded, file, answer)
  \/ \E q \in Queries : StartQuery(Main, q)
  \/ \E answer \in GenerationAnswers : GenerationResolves(Main, answer)
  \/ EvaluateRecord(Main)
  \/ RequestSummary(Main)
  \/ \E answer \in SummaryAnswers : SummaryResolves(Main, answer)
  \/ Return(Main)

Spec == Init /\ [][Next]_vars

(***************************************************************************)
(* A NaturalLanguageParser on its own: one call of parseQuery or of        *)
(* normalizeField on a text.  The service does not use the parser.         *)
(***************************************************************************)
ParserInit ==
  /\ ServiceInit
  /\ nlInput \in ParserCalls
  /\ nlOutput = NoOutput

ParseQueryCall ==
  /\ nlInput.kind = "parseQuery"
  /\ ~nlOutput.returned
  /\ nlOutput' = [returned |-> TRUE, value |-> ParseQuery(nlInput.text)]
  /\ UNCHANGED <<service, pc, query, generationAnswer, ruleResult, evaluation, sent,
                 summaryFailed, result, thrown, nlInput>>

NormalizeFieldCall ==
  /\ nlInput.kind = "normalizeField"
  /\ ~nlOutput.returned
  /\ nlOutput' = [returned |-> TRUE, value |-> NormalizeField(nlInput.text)]
  /\ UNCHANGED <<service, pc, query, generationAnswer, ruleResult, evaluation, sent,
                 summaryFailed, result, thrown, nlInput>>

ParserNext ==
  \/ ParseQueryCall
  \/ NormalizeFieldCall

ParserSpec == ParserInit /\ [][ParserNext]_vars

(***************************************************************************)
(* Two processQuery calls on one service.  Each await of a call (the       *)
(* generation request, every engine.run, the summary request) lets the     *)
(* other call run: the steps of the two calls interleave in every order.   *)
(***************************************************************************)
ConcurrentFiles == { <<RowFood, RowTravel>>, <<RowShort, RowLunch>> }

ConcurrentGenerationAnswers ==
  { ServerError,
    Answer(200, "", JStr(Stringify(RuleAmtUnder10))),
    Answer(200, "", JStr(Stringify(RuleFoodOrOver10))),
    Answer(200, "", JStr(Stringify(RuleEquals))) }

ConcurrentNext ==
  \/ \E file \in ConcurrentFiles : Initialize(TRUE, file, Answer(200, "", JUndefined))
  \/ \E c \in Calls, q \in Queries : StartQuery(c, q)
  \/ \E c \in Calls, answer \in ConcurrentGenerationAnswers : GenerationResolves(c, answer)
  \/ \E c \in Calls : EvaluateRecord(c)
  \/ \E c \in Calls : RequestSummary(c)
  \/ \E c \in Calls, answer \in SummaryAnswers : SummaryResolves(c, answer)
  \/ \E c \in Calls : Return(c)

ConcurrentSpec == Init /\ [][ConcurrentNext]_vars

(***************************************************************************)
(* What the claims speak of.                                               *)
(***************************************************************************)
\* The call has sent its generation request and has the generator's result.
Generated(c) == sent[c].generation > 0 /\ pc[c] # "generating"

\* The backend answered the generation request with a completion text.
Completed(c) ==
  /\ Generated(c)
  /\ AxiosResolves(generationAnswer[c])
  /\ generationAnswer[c].data.t = "str"

\* JSON.parse of the candidate text of the call's completion.
Parsed(c) == JsonParse(ExtractJsonText(generationAnswer[c].data.s))

\* Some stretch of the text, from a "{" to a "}", is a JSON object.
HoldsJsonObject(txt) ==
  \E a \in 1..Len(txt) : \E b \in a..Len(txt) :
    /\ txt[a] = "{"
    /\ txt[b] = "}"
    /\ JsonParse(SubSeq(txt, a, b)).ok

\* The text occurs as one of the parts of a message.
Embeds(message, part) == \E i \in 1..Len(message) : message[i] = part

\* The Rule invariants of the data model: conditions and event, exactly one
\* of all / any, a non-empty array, every condition with fact, operator, value.
RuleInvariants(v) ==
  /\ Has(v, "conditions")
  /\ Has(v, "event")
  /\ Has(Get(v, "conditions"), "all") # Has(Get(v, "conditions"), "any")
  /\ LET group == IF Has(Get(v, "conditions"), "all")
                  THEN Get(Get(v, "conditions"), "all")
                  ELSE Get(Get(v, "conditions"), "any")
     IN /\ group.t = "arr"
        /\ Len(group.a) > 0
        /\ \A i \in 1..Len(group.a) :
             /\ Has(group.a[i], "fact")
             /\ Has(group.a[i], "operator")
             /\ Has(group.a[i], "value")

\* The eight operators the generation prompt allows (lines 93-100).
CanonicalOperators ==
  {"lessThan", "greaterThan", "equal", "notEqual", "lessThanInclusive",
   "greaterThanInclusive", "contains", "in"}

\* The conditions of a rule, of its all group and of its any group.
ConditionsOf(rule) ==
  LET group(key) == Get(Get(rule, "conditions"), key)
      elems(key) == IF group(key).t = "arr"
                    THEN {group(key).a[i] : i \in 1..Len(group(key).a)} ELSE {}
  IN elems("all") \cup elems("any")

\* A matched record without the match metadata.
StripMeta(m) == [f \in DOMAIN m \ {"_matchedEvents"} |-> m[f]]
StripAll(list) == [i \in 1..Len(list) |-> StripMeta(list[i])]

\* sub is seq with some elements left out, the others in their order.
RECURSIVE IsSubsequence(_, _)
IsSubsequence(sub, seq) ==
  IF sub = <<>> THEN TRUE
  ELSE IF seq = <<>> THEN FALSE
  ELSE IF Head(sub) = Head(seq) THEN IsSubsequence(Tail(sub), Tail(seq))
  ELSE IsSubsequence(sub, Tail(seq))

(***************************************************************************)
(* C1: whatever the generation backend answers and whatever the records    *)
(* are, processQuery resolves to a result object and never rejects, also   *)
(* when the accepted rule is handed to applyRule and when the summary      *)
(* prompt is built.  The code rejects: engine.addRule and                  *)
(* buildSummaryPrompt run outside any try.                                 *)
(***************************************************************************)
C1_NeverRejects == \A c \in Calls : pc[c] # "rejected"

C3_EmptyMatchSkipsBackend ==
  \A c \in Calls :
    (pc[c] \in {"summarizing", "done"} /\ ruleResult[c].success /\ matched[c] = <<>>) =>
      /\ sent[c].summary = 0
      /\ pc[c] = "done" =>
           result[c].summary = NoMatchSummary(query[c], Len(transactions))

(***************************************************************************)
(* C4: whenever the summary request fails, the summarizer returns the      *)
(* templated text, sends no second request, and processQuery reports       *)
(* success with that text as summary.  The code rejects when a matched     *)
(* record past the sampled ones has no amount.                             *)
(***************************************************************************)
C4_SummaryNeverFailsOutward ==
  \A c \in Calls :
    summaryFailed[c] =>
      /\ pc[c] = "done"
      /\ result[c].success
      /\ sent[c].summary = 1
      /\ result[c].summary # <<>>
      /\ result[c].summary =
           GenerateFallbackSummary(query[c], matched[c], Len(transactions)).text

C6_BackendFailureEmbedsQuery ==
  \A c \in Calls :
    (Generated(c) /\ generationAnswer[c].status # 200) =>
      /\ ~ruleResult[c].success
      /\ ruleResult[c].rule = JUndefined
      /\ Embeds(ruleResult[c].error, generationAnswer[c].message)
      /\ Embeds(ruleResult[c].error, query[c])

(***************************************************************************)
(* C6, amended: when the generation request is rejected (the backend is    *)
(* unreachable or answers with a status outside 200-299), generateRule     *)
(* fails with an error text that embeds the backend's message and the      *)
(* model name, not the query text, and returns no rule.                    *)
(***************************************************************************)
C6_BackendFailureEmbedsMessage ==
  \A c \in Calls :
    (Generated(c) /\ ~AxiosResolves(generationAnswer[c])) =>
      /\ ~ruleResult[c].success
      /\ ruleResult[c].rule = JUndefined
      /\ Embeds(ruleResult[c].error, generationAnswer[c].message)
      /\ Embeds(ruleResult[c].error, Model)
      /\ ~Embeds(ruleResult[c].error, query[c])
      /\ result[c].generatedRule = JUndefined

C6_Witness ==
  \E c \in Calls :
    /\ Generated(c)
    /\ generationAnswer[c].status = 500
    /\ pc[c] = "done"
    /\ Embeds(result[c].error, "Request failed with status code 500")

(***************************************************************************)
(* C7: validateRule accepts a parsed value exactly when it satisfies the   *)
(* Rule invariants; a rule with both all and any is rejected.  The code    *)
(* accepts a rule that carries both.                                       *)
(***************************************************************************)
C7_AcceptsExactlyValidRules ==
  \A c \in Calls :
    (Completed(c) /\ Parsed(c).ok) =>
      (ruleResult[c].success <=> RuleInvariants(Parsed(c).val))

(***************************************************************************)
(* C8: generateRule never returns success with a rule one of whose         *)
(* conditions has an operator outside the eight canonical ones, so no such *)
(* rule reaches the evaluator.  The code checks only that an operator is   *)
(* given.                                                                  *)
(***************************************************************************)
C8_OnlyCanonicalOperators ==
  \A c \in Calls :
    ruleResult[c].success =>
      \A cond \in ConditionsOf(ruleResult[c].rule) :
        \E op \in CanonicalOperators : Get(cond, "operator") = S(op)

(***************************************************************************)
(* C9: every completion that parses as JSON and does not satisfy the Rule  *)
(* invariants fails with the schema error kind, and the failure carries    *)
(* the parsed object.  The code reports null, and a null condition, with   *)
(* the parse error kind, and attaches the raw response.                    *)
(***************************************************************************)
C9_InvalidJsonIsSchemaError ==
  \A c \in Calls :
    (Completed(c) /\ Parsed(c).ok /\ ~RuleInvariants(Parsed(c).val)) =>
      /\ ~ruleResult[c].success
      /\ ruleResult[c].error = SchemaErrorText
      /\ ruleResult[c].rawResponse = Parsed(c).val

(***************************************************************************)
(* C10: the matched records are an order-preserving subset of the loaded   *)
(* records: with the match metadata left out, they are the loaded records  *)
(* with some left out, none repeated, in the order of the input.           *)
(***************************************************************************)
C10_OrderPreservingSubset ==
  \A c \in Calls :
    /\ IsSubsequence(StripAll(matched[c]), evalTransactions[c])
    /\ (pc[c] = "done" /\ result[c].success) =>
         /\ IsSubsequence(StripAll(result[c].matchedTransactions), transactions)
         /\ \A i \in 1..Len(result[c].matchedTransactions) :
              "_matchedEvents" \in DOMAIN result[c].matchedTransactions[i]

C10_Witness ==
  \E c \in Calls :
    /\ pc[c] = "done"
    /\ result[c].success
    /\ Len(result[c].matchedTransactions) >= 2
    /\ Len(result[c].matchedTransactions) < Len(transactions)
    /\ \E i \in 1..Len(result[c].matchedTransactions) :
         StripMeta(result[c].matchedTransactions[i])
           # StripMeta(result[c].matchedTransactions[1])

\* What a pass over these records gives with an engine that holds these
\* rules: the copies of the records whose run raises nothing and emits an event.
RECURSIVE ExpectedMatches(_, _)
ExpectedMatches(rules, records) ==
  IF records = <<>> THEN <<>>
  ELSE LET run == EngineRunAll(rules, Head(records))
           rest == ExpectedMatches(rules, Tail(records))
       IN IF ~run.throws /\ Len(run.events) > 0
          THEN <<MatchedCopy(Head(records), run.events)>> \o rest
          ELSE rest

\* The call's pass over the records is over.
PassOver(c) ==
  /\ ruleResult[c].success
  /\ \/ pc[c] \in {"summarizing", "done"}
     \/ pc[c] = "evaluating" /\ evalIndex[c] > Len(evalTransactions[c])
     \/ pc[c] = "rejected" /\ thrown[c] # "addRule"

\* A condition of the rule has an operator the engine does not know.
HasUnknownOperator(rule) ==
  \E cond \in ConditionsOf(rule) :
    \A op \in EngineOperators : Get(cond, "operator") # S(op)

(***************************************************************************)
(* C11: an error raised while a record is evaluated (an operator the       *)
(* engine does not know, for one) excludes that record only: the pass goes *)
(* on, every record is run, and the matches are those of the records whose *)
(* run raised nothing.                                                     *)
(***************************************************************************)
C11_ErrorsContainedPerRecord ==
  \A c \in Calls :
    (pc[c] = "evaluating" \/ PassOver(c)) =>
      /\ evalIndex[c] >= 1
      /\ sent[c].run = evalIndex[c] - 1
      /\ matched[c] = ExpectedMatches(callEngine[c],
                        SubSeq(evalTransactions[c], 1, evalIndex[c] - 1))
      /\ PassOver(c) => sent[c].run = Len(evalTransactions[c])

C11_Witness ==
  \E c \in Calls :
    /\ pc[c] = "done"
    /\ result[c].success
    /\ HasUnknownOperator(ruleResult[c].rule)
    /\ Len(evalTransactions[c]) >= 2
    /\ sent[c].run = Len(evalTransactions[c])
    /\ result[c].matchedTransactions = <<>>

\* The leaf conditions of the rule's root group.
RootLeaves(rule) ==
  LET root == Get(rule, "conditions")
      sub == Get(root, BooleanOperator(root))
  IN IF sub.t = "arr"
     THEN {sub.a[i] : i \in {j \in 1..Len(sub.a) : BooleanOperator(sub.a[j]) = ""}}
     ELSE {}

\* The record has the field the condition names.
FactPresent(cond, record) ==
  /\ Get(cond, "fact").t = "str"
  /\ Len(Get(cond, "fact").s) = 1
  /\ Get(cond, "fact").s[1] \in DOMAIN record

(***************************************************************************)
(* C12: a condition on a field the record does not have is false and       *)
(* raises nothing; so under an any group a record that lacks the field of  *)
(* one condition is still matched when another condition of the group      *)
(* holds.  In the code the run of such a record raises (undefined fact)    *)
(* and the record is left out.                                             *)
(***************************************************************************)
C12_AbsentFieldIsFalse ==
  \A c \in Calls :
    (PassOver(c) /\ ~HasUnknownOperator(ruleResult[c].rule)) =>
      \A i \in 1..Len(evalTransactions[c]) :
        LET record == evalTransactions[c][i]
            leaves == RootLeaves(ruleResult[c].rule)
        IN (/\ BooleanOperator(Get(ruleResult[c].rule, "conditions")) = "any"
            /\ \E cond \in leaves : ~FactPresent(cond, record)
            /\ \E cond \in leaves :
                 FactPresent(cond, record) /\ EvaluateLeaf(cond, record) = "true"
            /\ \A cond \in leaves :
                 FactPresent(cond, record) => EvaluateLeaf(cond, record) # "throw")
           => /\ ~EngineRun(ruleResult[c].rule, record).throws
              /\ \E k \in 1..Len(matched[c]) : StripMeta(matched[c][k]) = record

\* A step of a processQuery call (initialize runs between the calls).
QueryStep == \E c \in Calls : pc[c] # "idle" \/ pc'[c] # "idle"

(***************************************************************************)
(* C13: no step of a processQuery call changes the loaded records: their   *)
(* number, order and field values stay what the load made them, and the    *)
(* match metadata is on the returned copies only, never on a loaded        *)
(* record.                                                                 *)
(***************************************************************************)
C13_RecordsLeftUnchanged ==
  [][/\ QueryStep => transactions' = transactions
     /\ \A i \in 1..Len(transactions') :
          "_matchedEvents" \notin DOMAIN transactions'[i]
     /\ \A c \in Calls : \A k \in 1..Len(matched'[c]) :
          "_matchedEvents" \in DOMAIN matched'[c][k]]_vars

C13_Witness ==
  \E c \in Calls :
    /\ pc[c] = "done"
    /\ result[c].success
    /\ Len(result[c].matchedTransactions) >= 1
    /\ Len(transactions) >= 2
    /\ transactions = evalTransactions[c]
    /\ transactions \in {LoadTransactions(file) : file \in Files}

(***************************************************************************)
(* C14: within one processQuery run the stages follow one another and      *)
(* each backend is asked at most once: one generation request, sent and    *)
(* resolved before any record is run and never sent again after a          *)
(* failure; every record run before the summary request is sent; at most   *)
(* one summary request before the result is returned.                      *)
(***************************************************************************)
C14_StagesInOrder ==
  \A c \in Calls :
    /\ sent[c].generation <= 1
    /\ sent[c].summary <= 1
    /\ pc[c] = "generating" =>
         sent[c].generation = 1 /\ sent[c].run = 0 /\ sent[c].summary = 0
    /\ (Generated(c) /\ ~ruleResult[c].success) =>
         pc[c] = "done" /\ sent[c].generation = 1
    /\ (pc[c] = "evaluating" \/ sent[c].run > 0) =>
         Generated(c) /\ ruleResult[c].success /\ sent[c].generation = 1
    /\ pc[c] = "evaluating" => sent[c].summary = 0
    /\ sent[c].summary = 1 =>
         PassOver(c) /\ sent[c].run = Len(evalTransactions[c])
    /\ (pc[c] = "done" /\ result[c].success) =>
         sent[c].generation = 1 /\ sent[c].summary = 1

C14_Witness ==
  \E c \in Calls :
    /\ pc[c] = "done"
    /\ result[c].success
    /\ sent[c].generation = 1
    /\ sent[c].run >= 2
    /\ sent[c].summary = 1

\* The result of a call that ran alone on a fresh service with these records,
\* this query, this answer to the generation request and this answer to the
\* summary request.
ResultAlone(q, records, answer, summaryAnswer) ==
  LET generated == GenerateRule(q, answer)
      matches == ExpectedMatches(<<generated.rule>>, records)
  IN IF ~generated.success THEN GenerationFailure(generated)
     ELSE SuccessResult(q, generated.rule, matches, Len(records),
                        SummaryResult(q, matches, Len(records), summaryAnswer))

(***************************************************************************)
(* C15: nothing is kept from one call to the next.  Every call on an       *)
(* initialized service sends its own generation request and runs its own   *)
(* pass with an engine that holds the rule of this call alone, and its     *)
(* result is the one a fresh service gives for the same query, backend     *)
(* answers and records, whatever was asked before.                         *)
(***************************************************************************)
C15_NoStageResultCached ==
  \A c \in Calls :
    /\ engine = <<>>
    /\ (pc[c] # "idle" /\ isInitialized) => sent[c].generation = 1
    /\ Generated(c) => ruleResult[c] = GenerateRule(query[c], generationAnswer[c])
    /\ (pc[c] = "evaluating" \/ PassOver(c)) =>
         /\ callEngine[c] = <<ruleResult[c].rule>>
         /\ matched[c] = ExpectedMatches(<<ruleResult[c].rule>>,
                           SubSeq(transactions, 1, sent[c].run))
    /\ (pc[c] = "done" /\ isInitialized) =>
         \E summaryAnswer \in SummaryAnswers :
           result[c] = ResultAlone(query[c], transactions, generationAnswer[c],
                                   summaryAnswer)

C15_Witness ==
  \E c \in Calls :
    /\ served
    /\ pc[c] = "done"
    /\ result[c].success
    /\ Len(result[c].matchedTransactions) >= 1
    /\ Len(result[c].matchedTransactions) < Len(transactions)

\* The text is count / total * 100 to the nearest tenth, a number from 0 to 100.
IsPercentageOf(text, count, total) ==
  /\ total > 0
  /\ \E tenths \in 0..1000 :
       /\ text = ToString(tenths \div 10) \o "." \o ToString(tenths % 10)
       /\ 2 * tenths * total <= 2 * count * 1000 + total
       /\ 2 * tenths * total > 2 * count * 1000 - total

(***************************************************************************)
(* C16: every success result is consistent: its query is the input text,   *)
(* its rule the generator's, matchCount the length of the matched list,    *)
(* totalTransactions the number of loaded records, matchCount at most      *)
(* totalTransactions, and matchPercentage a number from 0 to 100 equal to  *)
(* matchCount / totalTransactions * 100, also for an empty record set.     *)
(* In the code the percentage of an empty record set is NaN.               *)
(***************************************************************************)
C16_SuccessResultConsistent ==
  \A c \in Calls :
    (pc[c] = "done" /\ result[c].success) =>
      /\ result[c].query = query[c]
      /\ result[c].generatedRule = ruleResult[c].rule
      /\ result[c].results.matchCount = Len(result[c].matchedTransactions)
      /\ result[c].results.totalTransactions = Len(transactions)
      /\ result[c].results.matchCount <= result[c].results.totalTransactions
      /\ IsPercentageOf(result[c].results.matchPercentage,
                        result[c].results.matchCount,
                        result[c].results.totalTransactions)

\* A call of normalizeField has returned.
Resolved == nlInput.kind = "normalizeField" /\ nlOutput.returned

\* C17: field resolution lowercases and trims its input, takes the alias
\* when the text is an alias, else the descriptor name that equals it
\* whatever the case, and returns null when nothing matches; "amount"
\* resolves to "amt" and "fraud" to "isFraud".
C17_UnresolvedFieldIsNull ==
  Resolved =>
    LET normalized == Trim(ToLowerCaseText(nlInput.text))
        aliases == {p \in FieldAliases : p[1] = normalized}
        names == {i \in 1..Len(FieldNames) : <<ToLowerCase(FieldNames[i])>> = normalized}
    IN /\ aliases # {} => nlOutput.value = S((CHOOSE p \in aliases : TRUE)[2])
       /\ aliases = {} /\ names # {} =>
            \E i \in names : nlOutput.value = S(FieldNames[i])
       /\ aliases = {} /\ names = {} => nlOutput.value = JNull
       /\ normalized = <<"amount">> => nlOutput.value = S("amt")
       /\ normalized = <<"fraud">> => nlOutput.value = S("isFraud")

\* A call of parseQuery has returned.
QueryParsed == nlInput.kind = "parseQuery" /\ nlOutput.returned

\* C19: parseQuery returns the rule of the first pattern in list order that
\* matches and validates, and the query "transactions where category is
\* food_dining" is handled by the third pattern, which gives the single
\* condition fact "category", operator "equal", value "food_dining".
C19_CategoryQueryUsesItsPattern ==
  QueryParsed =>
    LET returned == nlOutput.value IN
       /\ returned.success <=> FirstPattern(nlInput.text) # 0
       /\ \A n \in 1..PatternCount :
            n = FirstPattern(nlInput.text) =>
              returned.rule = GenerateJsonRule(Extract(n, nlInput.text)[1])
       /\ nlInput.text = CategoryQuery =>
            /\ FirstPattern(nlInput.text) = 3
            /\ returned.success
            /\ ConditionsOf(returned.rule) =
                 {Cond("category", "equal", S("food_dining"))}

\* The rules whose JSON text, and nothing else, the backend answered with.
Serialized(c) ==
  {v \in GeneratedValues :
     RuleInvariants(v) /\ generationAnswer[c] = Answer(200, "", JStr(Stringify(v)))}

\* C18: a rule that satisfies the Rule invariants, written as JSON and
\* passed through the generator's extraction and parsing, comes back as a
\* success whose rule equals the original, whatever text its strings hold.
C18_RuleRoundTrip ==
  \A c \in Calls :
    Generated(c) =>
      \A v \in Serialized(c) : ruleResult[c].success /\ ruleResult[c].rule = v

C21_InterleavedCallsDoNotInterfere ==
  \A c \in Calls :
    isInitialized =>
      /\ Generated(c) => ruleResult[c] = GenerateRule(query[c], generationAnswer[c])
      /\ (pc[c] = "evaluating" \/ PassOver(c)) =>
           /\ callEngine[c] = <<ruleResult[c].rule>>
           /\ evalTransactions[c] = transactions
           /\ matched[c] = ExpectedMatches(callEngine[c],
                             SubSeq(transactions, 1, sent[c].run))
      /\ pc[c] = "done" =>
           \E summaryAnswer \in SummaryAnswers :
             result[c] = ResultAlone(query[c], transactions, generationAnswer[c],
                                     summaryAnswer)

\* Both calls are in their pass over the records, each with runs behind it,
\* with different rules and different matches so far.
C21_Witness ==
  /\ isInitialized
  /\ \A c \in Calls : pc[c] = "evaluating" /\ sent[c].run >= 1 /\ matched[c] # <<>>
  /\ callEngine[1] # callEngine[2]
  /\ matched[1] # matched[2]
====
